---- MODULE Spec2Model ----
(***************************************************************************)
(* Model of the AI-alignment visualization backend:                        *)
(*   src/visualizer/app.py        graph builder, hierarchy path, loaders   *)
(*   src/node_details_helper.py   node resolver and its own loaders        *)
(*                                                                         *)
(* JSON values are tagged records: [t |-> "dict", <key> |-> ...] is an     *)
(* object (its JSON keys are the record's other fields), [t |-> "list",    *)
(* v |-> <<...>>] an array, [t |-> "null"] null, [t |-> "num", n |-> k] a  *)
(* number and [t |-> "str", s |-> "..."] a string standing where an object *)
(* or array is expected.  The scalar fields id, name, description, parent  *)
(* and type hold TLA+ strings, so that the ids the builder synthesizes     *)
(* with f-strings are real strings that can collide with explicit ids.     *)
(* Python's None is Null.                                                  *)
(***************************************************************************)
EXTENDS Integers, Sequences, FiniteSets, TLC

VARIABLES root_file, component_files, subcomponent_files, pc, response,
          threads, default_root_data

vars == <<root_file, component_files, subcomponent_files, pc, response,
          threads, default_root_data>>

-----------------------------------------------------------------------------
(* JSON / Python helpers *)

Null == [t |-> "null"]

EmptyList == [t |-> "list", v |-> <<>>]

List(s) == [t |-> "list", v |-> s]

IsDict(x) == x.t = "dict"

IsList(x) == x.t = "list"

\* "k in d" for a dict d
Has(d, k) == k \in DOMAIN d

\* "k in x" for a dict (a key) or a list (an element equal to the string k)
In(k, x) ==
    CASE x.t = "dict" -> k \in DOMAIN x
      [] x.t = "list" -> \E i \in 1..Len(x.v) : x.v[i] = [t |-> "str", s |-> k]
      [] OTHER        -> FALSE

\* d.get(k, default)
Get(d, k, default) == IF k \in DOMAIN d THEN d[k] ELSE default

\* bool(x) for a tagged JSON value
PyBool(x) ==
    CASE x.t = "null" -> FALSE
      [] x.t = "list" -> x.v # <<>>
      [] x.t = "dict" -> DOMAIN x # {"t"}
      [] x.t = "str"  -> x.s # ""
      [] x.t = "num"  -> x.n # 0

\* whether "for item in x" can start: null and numbers raise TypeError
Iterable(x) == x.t \in {"list", "dict", "str"}

\* the items "for item in x" visits: the entries of a list; the keys of a
\* dict and the characters of a string are strings (never dicts)
Items(x) ==
    CASE x.t = "list" -> x.v
      [] x.t = "dict" -> [i \in 1..Cardinality(DOMAIN x \ {"t"}) |-> [t |-> "str", s |-> "key"]]
      [] x.t = "str"  -> IF x.s = "" THEN <<>> ELSE <<[t |-> "str", s |-> "char"]>>
      [] OTHER        -> <<>>

-----------------------------------------------------------------------------
(* build_graph_data: the accumulator is the function's local state         *)
(* (nodes, links, node_map) plus whether an exception has been raised.     *)
(* node_map is read only through "in", so it is kept as its key set.       *)

\* the lists of the run served last, kept instead of new ones
NewAccKept ==
    IF response.op = "graph" /\ response.result.status = 200
    THEN [nodes |-> response.result.nodes, links |-> response.result.links,
          node_map |-> {response.result.nodes[i].id : i \in 1..Len(response.result.nodes)},
          raised |-> FALSE]
    ELSE [nodes |-> <<>>, links |-> <<>>, node_map |-> {}, raised |-> FALSE]

NewAcc == [nodes |-> <<>>, links |-> <<>>, node_map |-> {}, raised |-> FALSE]

Raise(acc) == [acc EXCEPT !.raised = TRUE]

\* every link is a "contains" link
LinkContains(source, target, type) == [source |-> source, target |-> target, type |-> "contains"]

Link(source, target, type) == [source |-> source, target |-> target, type |-> type]

\* nodes.append(node); node_map[node["id"]] = node; links.append(link)
Emit(acc, node, link) ==
    [acc EXCEPT !.nodes = Append(@, node),
                !.links = Append(@, link),
                !.node_map = @ \cup {node.id}]

\* nodes.append(root_node); node_map[root_data["id"]] = root_node
EmitRoot(acc, node) ==
    [acc EXCEPT !.nodes = Append(@, node), !.node_map = @ \cup {node.id}]

RootNode(root_data, components) ==
    [id |-> root_data.id, name |-> root_data.name, type |-> "component_group",
     description |-> root_data.description, level |-> 0,
     expandable |-> TRUE, has_children |-> components # <<>>]

ComponentNode(component_id, component, root_data, has_children) ==
    [id |-> component_id, name |-> component.name, type |-> "component",
     description |-> Get(component, "description", ""),
     parent |-> root_data.id, level |-> 1,
     expandable |-> has_children, has_children |-> has_children]

SubcompNode(subcomp_id, subcomp, component_id, has_children) ==
    [id |-> subcomp_id, name |-> Get(subcomp, "name", subcomp_id),
     type |-> "subcomponent", description |-> Get(subcomp, "description", ""),
     parent |-> component_id, level |-> 2,
     expandable |-> has_children, has_children |-> has_children]

CapabilityNode(capability_id, capability, subcomp_id, has_children) ==
    [id |-> capability_id, name |-> Get(capability, "name", "Capability"),
     type |-> "capability", description |-> Get(capability, "description", ""),
     parent |-> subcomp_id, level |-> 3,
     expandable |-> has_children, has_children |-> has_children]

\* mutant: the node names itself as its parent
FunctionNodeSelfParent(function_id, function, capability_id, has_children) ==
    [id |-> function_id, name |-> Get(function, "name", "Function"),
     type |-> "function", description |-> Get(function, "description", ""),
     parent |-> function_id, level |-> 4,
     expandable |-> has_children, has_children |-> has_children]

FunctionNode(function_id, function, capability_id, has_children) ==
    [id |-> function_id, name |-> Get(function, "name", "Function"),
     type |-> "function", description |-> Get(function, "description", ""),
     parent |-> capability_id, level |-> 4,
     expandable |-> has_children, has_children |-> has_children]

\* mutant: the level follows the type the fragment declares
SpecNodeDeclaredLevel(spec_id, spec, function_id, has_children) ==
    [id |-> spec_id, name |-> Get(spec, "name", "Specification"),
     type |-> "specification", description |-> Get(spec, "description", ""),
     parent |-> function_id,
     level |-> IF Get(spec, "type", "specification") = "component" THEN 1 ELSE 5,
     expandable |-> has_children, has_children |-> has_children]

SpecNode(spec_id, spec, function_id, has_children) ==
    [id |-> spec_id, name |-> Get(spec, "name", "Specification"),
     type |-> "specification", description |-> Get(spec, "description", ""),
     parent |-> function_id, level |-> 5,
     expandable |-> has_children, has_children |-> has_children]

IntegrationNode(integration_id, integration, spec_id, has_children) ==
    [id |-> integration_id, name |-> Get(integration, "name", "Integration"),
     type |-> "integration", description |-> Get(integration, "description", ""),
     parent |-> spec_id, level |-> 6,
     expandable |-> has_children, has_children |-> has_children]

TechniqueNode(technique_id, technique, integration_id, has_children) ==
    [id |-> technique_id, name |-> Get(technique, "name", "Technique"),
     type |-> "technique", description |-> Get(technique, "description", ""),
     parent |-> integration_id, level |-> 7,
     expandable |-> has_children, has_children |-> has_children]

AppNode(app_id, app, technique_id, has_children) ==
    [id |-> app_id, name |-> Get(app, "name", "Application"),
     type |-> "application", description |-> Get(app, "description", ""),
     parent |-> technique_id, level |-> 8,
     expandable |-> has_children, has_children |-> has_children]

InputNode(input_id, input_item, app_id) ==
    [id |-> input_id, name |-> Get(input_item, "name", "Input"),
     type |-> "input", description |-> Get(input_item, "description", ""),
     parent |-> app_id, level |-> 9,
     expandable |-> FALSE, has_children |-> FALSE]

\* output_idx is the zero-based enumerate() index
OutputNode(output_id, output_item, app_id, output_idx) ==
    [id |-> output_id,
     name |-> Get(output_item, "name", "Output " \o ToString(output_idx + 1)),
     type |-> "output", description |-> Get(output_item, "description", ""),
     parent |-> app_id, level |-> 9,
     expandable |-> FALSE, has_children |-> FALSE]

\* item.get("id", f"{parent_id}-{role}-{len(nodes)}")
\* the count is taken after the node is appended
SynthIdAfterAppend(item, parent_id, role, nodes) ==
    Get(item, "id", parent_id \o "-" \o role \o "-" \o ToString(Len(nodes) + 1))

SynthId(item, parent_id, role, nodes) ==
    Get(item, "id", parent_id \o "-" \o role \o "-" \o ToString(Len(nodes)))

\* the id of an output: its truthy "id", else f"{app_id}-output-{output_idx}"
OutputId(output_item, app_id, output_idx) ==
    IF Has(output_item, "id") /\ output_item.id # ""
    THEN output_item.id
    ELSE app_id \o "-output-" \o ToString(output_idx)

-----------------------------------------------------------------------------
(* The application level: inputs, outputs and their deduplication *)

\* lines 441-447: the outputs nested in the inputs, in input order
RECURSIVE NestedOutputs(_)
NestedOutputs(items) ==
    IF items = <<>> THEN <<>>
    ELSE LET input_item == Head(items)
             input_outputs == IF IsDict(input_item) /\ Has(input_item, "outputs")
                              THEN input_item.outputs ELSE Null
             mine == CASE IsList(input_outputs) -> input_outputs.v
                       [] IsDict(input_outputs) -> <<input_outputs>>
                       [] OTHER -> <<>>
         IN  mine \o NestedOutputs(Tail(items))

\* lines 453-463: keep the first output of each truthy id and every output
\* without one; non-dict entries are dropped
RECURSIVE UniqueFrom(_, _)
UniqueFrom(outputs, output_ids) ==
    IF outputs = <<>> THEN <<>>
    ELSE LET output == Head(outputs) IN
         IF ~IsDict(output) THEN UniqueFrom(Tail(outputs), output_ids)
         ELSE LET output_id == Get(output, "id", "") IN
              IF output_id # "" /\ output_id \notin output_ids
              THEN <<output>> \o UniqueFrom(Tail(outputs), output_ids \cup {output_id})
              ELSE IF output_id = ""
                   THEN <<output>> \o UniqueFrom(Tail(outputs), output_ids)
                   ELSE UniqueFrom(Tail(outputs), output_ids)

Reverse(q) == [i \in 1..Len(q) |-> q[Len(q) + 1 - i]]

\* mutant: of the outputs with one id the last is kept, not the first
UniqueOutputsKeepLast(outputs) == Reverse(UniqueFrom(Reverse(outputs), {}))

UniqueOutputs(outputs) == UniqueFrom(outputs, {})

\* lines 489-513
RECURSIVE AddInputs(_, _, _)
AddInputs(acc, app_id, items) ==
    IF items = <<>> THEN acc
    ELSE LET input_item == Head(items) IN
         IF ~IsDict(input_item) THEN AddInputs(acc, app_id, Tail(items))
         ELSE LET input_id == SynthId(input_item, app_id, "input", acc.nodes)
                  node == InputNode(input_id, input_item, app_id)
              IN  AddInputs(Emit(acc, node, Link(app_id, input_id, "has_input")),
                            app_id, Tail(items))

\* lines 537-546: the output is added only when its id is not yet in node_map
\* the link is appended whether or not the node is
EmitOutputLinkAlways(acc, node, app_id) ==
    IF node.id \notin acc.node_map
    THEN Emit(acc, node, Link(app_id, node.id, "has_output"))
    ELSE [acc EXCEPT !.links = Append(@, Link(app_id, node.id, "has_output"))]

EmitOutput(acc, node, app_id) ==
    IF node.id \notin acc.node_map
    THEN Emit(acc, node, Link(app_id, node.id, "has_output"))
    ELSE acc

\* lines 516-546; output_idx is the enumerate() index of Head(outputs)
RECURSIVE AddOutputs(_, _, _, _)
AddOutputs(acc, app_id, outputs, output_idx) ==
    IF outputs = <<>> THEN acc
    ELSE LET output_item == Head(outputs) IN
         IF ~IsDict(output_item)
         THEN AddOutputs(acc, app_id, Tail(outputs), output_idx + 1)
         ELSE LET output_id == OutputId(output_item, app_id, output_idx)
                  node == OutputNode(output_id, output_item, app_id, output_idx)
              IN  AddOutputs(EmitOutput(acc, node, app_id), app_id,
                             Tail(outputs), output_idx + 1)

\* lines 433-546, one application
\* the output nodes are appended before the input nodes
AddApplicationOutputsFirst(acc, technique_id, app) ==
    LET app_id == SynthId(app, technique_id, "app", acc.nodes)
        inputs == Get(app, "inputs", EmptyList)
        standalone_outputs == Get(app, "outputs", EmptyList)
    IN  IF ~Iterable(inputs) \/ ~IsList(standalone_outputs) THEN Raise(acc)
        ELSE LET outputs == UniqueOutputs(standalone_outputs.v \o NestedOutputs(Items(inputs)))
                 has_app_children == PyBool(inputs) \/ outputs # <<>>
                 node == AppNode(app_id, app, technique_id, has_app_children)
                 acc1 == Emit(acc, node, Link(technique_id, app_id, "has_application"))
                 acc2 == AddOutputs(acc1, app_id, outputs, 0)
             IN  AddInputs(acc2, app_id, Items(inputs))

AddApplication(acc, technique_id, app) ==
    LET app_id == SynthId(app, technique_id, "app", acc.nodes)
        inputs == Get(app, "inputs", EmptyList)
        standalone_outputs == Get(app, "outputs", EmptyList)
    IN  IF ~Iterable(inputs) \/ ~IsList(standalone_outputs) THEN Raise(acc)
        ELSE LET outputs == UniqueOutputs(standalone_outputs.v \o NestedOutputs(Items(inputs)))
                 has_app_children == PyBool(inputs) \/ outputs # <<>>
                 node == AppNode(app_id, app, technique_id, has_app_children)
                 acc1 == Emit(acc, node, Link(technique_id, app_id, "has_application"))
                 acc2 == AddInputs(acc1, app_id, Items(inputs))
             IN  AddOutputs(acc2, app_id, outputs, 0)

\* lines 429-431
RECURSIVE AddApplications(_, _, _)
AddApplications(acc, technique_id, items) ==
    IF items = <<>> \/ acc.raised THEN acc
    ELSE LET app == Head(items) IN
         IF ~IsDict(app) THEN AddApplications(acc, technique_id, Tail(items))
         ELSE AddApplications(AddApplication(acc, technique_id, app),
                              technique_id, Tail(items))

-----------------------------------------------------------------------------
(* The levels technique, integration, specification, function, capability *)

\* lines 400-431
RECURSIVE AddTechniques(_, _, _)
AddTechniques(acc, integration_id, items) ==
    IF items = <<>> \/ acc.raised THEN acc
    ELSE LET technique == Head(items) IN
         IF ~IsDict(technique) THEN AddTechniques(acc, integration_id, Tail(items))
         ELSE LET technique_id == SynthId(technique, integration_id, "technique", acc.nodes)
                  applications == Get(technique, "applications", EmptyList)
                  node == TechniqueNode(technique_id, technique, integration_id,
                                        PyBool(applications))
                  acc1 == Emit(acc, node, Link(integration_id, technique_id, "has_technique"))
                  acc2 == IF Iterable(applications)
                          THEN AddApplications(acc1, technique_id, Items(applications))
                          ELSE Raise(acc1)
              IN  AddTechniques(acc2, integration_id, Tail(items))

\* lines 374-431
AddIntegration(acc, spec_id, integration) ==
    IF ~(PyBool(integration) /\ IsDict(integration)) THEN acc
    ELSE LET integration_id == SynthId(integration, spec_id, "integration", acc.nodes)
             techniques == Get(integration, "techniques", EmptyList)
             node == IntegrationNode(integration_id, integration, spec_id,
                                     PyBool(techniques))
             acc1 == Emit(acc, node, Link(spec_id, integration_id, "has_integration"))
         IN  IF Iterable(techniques)
             THEN AddTechniques(acc1, integration_id, Items(techniques))
             ELSE Raise(acc1)

\* lines 345-374
RECURSIVE AddSpecifications(_, _, _)
AddSpecifications(acc, function_id, items) ==
    IF items = <<>> \/ acc.raised THEN acc
    ELSE LET spec == Head(items) IN
         IF ~IsDict(spec) THEN AddSpecifications(acc, function_id, Tail(items))
         ELSE LET spec_id == SynthId(spec, function_id, "spec", acc.nodes)
                  integration == Get(spec, "integration", Null)
                  node == SpecNode(spec_id, spec, function_id, PyBool(integration))
                  acc1 == Emit(acc, node, Link(function_id, spec_id, "has_specification"))
              IN  AddSpecifications(AddIntegration(acc1, spec_id, integration),
                                    function_id, Tail(items))

\* lines 316-345
RECURSIVE AddFunctions(_, _, _)
AddFunctions(acc, capability_id, items) ==
    IF items = <<>> \/ acc.raised THEN acc
    ELSE LET function == Head(items) IN
         IF ~IsDict(function) THEN AddFunctions(acc, capability_id, Tail(items))
         ELSE LET function_id == SynthId(function, capability_id, "function", acc.nodes)
                  specifications == Get(function, "specifications", EmptyList)
                  node == FunctionNode(function_id, function, capability_id,
                                       PyBool(specifications))
                  acc1 == Emit(acc, node, Link(capability_id, function_id, "has_function"))
                  acc2 == IF Iterable(specifications)
                          THEN AddSpecifications(acc1, function_id, Items(specifications))
                          ELSE Raise(acc1)
              IN  AddFunctions(acc2, capability_id, Tail(items))

\* lines 287-316
RECURSIVE AddCapabilities(_, _, _)
AddCapabilities(acc, subcomp_id, items) ==
    IF items = <<>> \/ acc.raised THEN acc
    ELSE LET capability == Head(items) IN
         IF ~IsDict(capability) THEN AddCapabilities(acc, subcomp_id, Tail(items))
         ELSE LET capability_id == SynthId(capability, subcomp_id, "capability", acc.nodes)
                  functions == Get(capability, "functions", EmptyList)
                  node == CapabilityNode(capability_id, capability, subcomp_id,
                                         PyBool(functions))
                  acc1 == Emit(acc, node, Link(subcomp_id, capability_id, "has_capability"))
                  acc2 == IF Iterable(functions)
                          THEN AddFunctions(acc1, capability_id, Items(functions))
                          ELSE Raise(acc1)
              IN  AddCapabilities(acc2, subcomp_id, Tail(items))

-----------------------------------------------------------------------------
(* Mappings (Python dicts, insertion-ordered) are sequences of             *)
(* [key |-> id, doc |-> document] with distinct keys.                      *)

Keys(m) == {m[i].key : i \in 1..Len(m)}

Lookup(m, k) == m[CHOOSE i \in 1..Len(m) : m[i].key = k].doc

\* m[k] = doc
DictSet(m, k, doc) ==
    IF k \in Keys(m)
    THEN [i \in 1..Len(m) |-> IF m[i].key = k THEN [key |-> k, doc |-> doc] ELSE m[i]]
    ELSE Append(m, [key |-> k, doc |-> doc])

-----------------------------------------------------------------------------
(* The top of build_graph_data: root, components, subcomponents *)

\* lines 258-263
Capabilities(subcomp) ==
    IF Has(subcomp, "capabilities")
    THEN IF IsList(subcomp.capabilities) THEN subcomp.capabilities
         ELSE IF IsDict(subcomp.capabilities) /\ Has(subcomp.capabilities, "items")
              THEN subcomp.capabilities.items
              ELSE EmptyList
    ELSE EmptyList

\* lines 257-287
RECURSIVE AddSubcomponents(_, _, _)
AddSubcomponents(acc, component_id, items) ==
    IF items = <<>> \/ acc.raised THEN acc
    ELSE LET subcomp_id == Head(items).key
             subcomp == Head(items).doc
             capabilities == Capabilities(subcomp)
             node == SubcompNode(subcomp_id, subcomp, component_id, PyBool(capabilities))
             acc1 == Emit(acc, node, Link(component_id, subcomp_id, "contains"))
             acc2 == IF Iterable(capabilities)
                     THEN AddCapabilities(acc1, subcomp_id, Items(capabilities))
                     ELSE Raise(acc1)
         IN  AddSubcomponents(acc2, component_id, Tail(items))

\* every subcomponent that has a "parent", whatever it names
ComponentSubcomponentsAnyParent(subcomponents, component_id) ==
    SelectSeq(subcomponents, LAMBDA e : In("parent", e.doc))

\* lines 232-233: the subcomponents whose "parent" is this component, in
\* mapping order
RECURSIVE ComponentSubcomponents(_, _)
ComponentSubcomponents(subcomponents, component_id) ==
    IF subcomponents = <<>> THEN <<>>
    ELSE LET s == Head(subcomponents).doc
             rest == ComponentSubcomponents(Tail(subcomponents), component_id)
         IN  IF In("parent", s) /\ s.parent = component_id
             THEN <<Head(subcomponents)>> \o rest
             ELSE rest

\* s["parent"] raises TypeError for a list s that holds the string "parent"
ParentLookupRaises(subcomponents) ==
    \E i \in 1..Len(subcomponents) :
        ~IsDict(subcomponents[i].doc) /\ In("parent", subcomponents[i].doc)

\* lines 230-257; component["name"] raises when the key is missing
RECURSIVE AddComponents(_, _, _, _)
AddComponents(acc, root_data, items, subcomponents) ==
    IF items = <<>> \/ acc.raised THEN acc
    ELSE LET component_id == Head(items).key
             component == Head(items).doc
             component_subcomponents ==
                 IF ParentLookupRaises(subcomponents) THEN <<>>
                 ELSE ComponentSubcomponents(subcomponents, component_id)
         IN  IF ParentLookupRaises(subcomponents) \/ ~(IsDict(component) /\ Has(component, "name"))
             THEN Raise(acc)
             ELSE LET node == ComponentNode(component_id, component, root_data,
                                            component_subcomponents # <<>>)
                      acc1 == Emit(acc, node, Link(root_data.id, component_id, "contains"))
                  IN  AddComponents(AddSubcomponents(acc1, component_id, component_subcomponents),
                                    root_data, Tail(items), subcomponents)

\* lines 204-549 on loaded data; root_data["id"], ["name"], ["description"]
\* raise when missing
BuildGraph(root_data, components, subcomponents) ==
    IF ~(IsDict(root_data) /\ {"id", "name", "description"} \subseteq DOMAIN root_data)
    THEN Raise(NewAcc)
    ELSE AddComponents(EmitRoot(NewAcc, RootNode(root_data, components)),
                       root_data, components, subcomponents)

-----------------------------------------------------------------------------
(* Loading.  load_json_file is the external collaborator: a file is the    *)
(* value it returns for it, the parsed document or Null (None) on a miss.  *)
(* A directory is [exists |-> BOOLEAN, files |-> <<[key, data], ...>>] in  *)
(* glob order, key being the file name without ".json" and data the file.  *)
(* A file is the JSON value its text holds, or a record that tells why it  *)
(* holds none: [t |-> "missing"], [t |-> "unreadable"] (every open         *)
(* fails), [t |-> "blank"] (only white space), [t |-> "text"] (content     *)
(* that starts with neither "{" nor "[") or [t |-> "broken"] (starts like  *)
(* JSON, fails to decode).                                                 *)

MissingFile == [t |-> "missing"]

\* load_json_file: only a text that starts with "{" or "[" and decodes is
\* returned; the scalars null, 5, "x" do not start so; every failure and
\* every exception gives None
load_json_file(file) == IF file.t \in {"dict", "list"} THEN file ELSE Null

\* a default that lists three components
DEFAULT_ROOT_DATA_OF_THREE ==
    [t |-> "dict", id |-> "ai-alignment", name |-> "AI Alignment",
     description |-> "Methods to ensure AI systems remain aligned with human values and intentions.",
     type |-> "component_group",
     components |-> List(<<
        [t |-> "dict", id |-> "technical-safeguards", name |-> "Technical Safeguards",
         description |-> "Engineering approaches to ensure AI systems behave as intended"],
        [t |-> "dict", id |-> "value-learning", name |-> "Value Learning",
         description |-> "Systems that enable AI to learn and internalize human values"],
        [t |-> "dict", id |-> "interpretability-tools", name |-> "Interpretability Tools",
         description |-> "Methods to understand AI reasoning and decision-making"]>>)]

DEFAULT_ROOT_DATA ==
    [t |-> "dict", id |-> "ai-alignment", name |-> "AI Alignment",
     description |-> "Methods to ensure AI systems remain aligned with human values and intentions.",
     type |-> "component_group",
     components |-> List(<<
        [t |-> "dict", id |-> "technical-safeguards", name |-> "Technical Safeguards",
         description |-> "Engineering approaches to ensure AI systems behave as intended"],
        [t |-> "dict", id |-> "value-learning", name |-> "Value Learning",
         description |-> "Systems that enable AI to learn and internalize human values"],
        [t |-> "dict", id |-> "interpretability-tools", name |-> "Interpretability Tools",
         description |-> "Methods to understand AI reasoning and decision-making"],
        [t |-> "dict", id |-> "oversight-mechanisms", name |-> "Oversight Mechanisms",
         description |-> "Systems for monitoring and evaluating AI behavior"]>>)]

\* get_root_data, the same in both modules: "default" is what the module's
\* DEFAULT_ROOT_DATA object holds when the function runs; the object itself
\* is returned, not a copy
RootOrDefault(default, file) ==
    IF ~PyBool(load_json_file(file)) THEN default ELSE load_json_file(file)

get_root_data(file) == RootOrDefault(DEFAULT_ROOT_DATA, file)

\* the loop over the component files: a file whose data is truthy is stored
RECURSIVE LoadComponentFiles(_, _)
LoadComponentFiles(components, files) ==
    IF files = <<>> THEN components
    ELSE LoadComponentFiles(
            IF PyBool(load_json_file(Head(files).data))
            THEN DictSet(components, Head(files).key, load_json_file(Head(files).data))
            ELSE components,
            Tail(files))

\* for component in DEFAULT_ROOT_DATA["components"]: components[component["id"]] = component
RECURSIVE DefaultComponents(_, _)
DefaultComponents(components, items) ==
    IF items = <<>> THEN components
    ELSE DefaultComponents(DictSet(components, Head(items).id, Head(items)), Tail(items))

\* AIAlignmentVisualizer.get_components: a new mapping each call; without
\* the directory its values are the entries of the module's default object
ComponentsOrDefault(default, dir) ==
    IF ~dir.exists THEN DefaultComponents(<<>>, default.components.v)
    ELSE LoadComponentFiles(<<>>, dir.files)

app_get_components(dir) == ComponentsOrDefault(DEFAULT_ROOT_DATA, dir)

\* node_details_helper.get_components
helper_get_components(dir) ==
    IF ~dir.exists THEN <<>> ELSE LoadComponentFiles(<<>>, dir.files)

\* the loop over the subcomponent files; data["id"] = subcomponent_id raises
\* TypeError when data is a list that does not hold the string "id"
RECURSIVE LoadSubcomponentFiles(_, _)
LoadSubcomponentFiles(loaded, files) ==
    IF files = <<>> \/ loaded.raised THEN loaded
    ELSE LET data == load_json_file(Head(files).data)
             subcomponent_id == Head(files).key
         IN  IF ~PyBool(data) THEN LoadSubcomponentFiles(loaded, Tail(files))
             ELSE IF In("id", data)
                  THEN LoadSubcomponentFiles(
                          [loaded EXCEPT !.map = DictSet(@, subcomponent_id, data)],
                          Tail(files))
                  ELSE IF IsDict(data)
                       THEN LoadSubcomponentFiles(
                               [loaded EXCEPT !.map =
                                   DictSet(@, subcomponent_id, ("id" :> subcomponent_id) @@ data)],
                               Tail(files))
                       ELSE [loaded EXCEPT !.raised = TRUE]

\* node_details_helper.get_subcomponents: [map, raised]
helper_get_subcomponents(dir) ==
    IF ~dir.exists THEN [map |-> <<>>, raised |-> FALSE]
    ELSE LoadSubcomponentFiles([map |-> <<>>, raised |-> FALSE], dir.files)

\* AIAlignmentVisualizer.get_subcomponents: any exception gives {}
app_get_subcomponents(dir) ==
    LET loaded == helper_get_subcomponents(dir)
    IN  IF loaded.raised THEN <<>> ELSE loaded.map

\* build_graph_data from the files
build_graph_data(root, components_dir, subcomponents_dir) ==
    BuildGraph(get_root_data(root), app_get_components(components_dir),
               app_get_subcomponents(subcomponents_dir))

-----------------------------------------------------------------------------
(* node_details_helper.find_nested_node.  A search returns NotFound        *)
(* (None), Found(fragment) or Raised (an exception left the function).     *)

NotFound == [st |-> "none"]

\* a copy of the fragment with a "found" key added is returned
FoundCopy(x) == [st |-> "found", node |-> ("found" :> "yes") @@ x]

Found(x) == [st |-> "found", node |-> x]

Raised == [st |-> "raised"]

\* the search goes on only while nothing was returned or raised
OrElse(r, rest) == IF r.st # "none" THEN r ELSE rest

\* x.get('id') == node_id
IdIs(x, node_id) == Has(x, "id") /\ x.id = node_id

\* lines 223-226
RECURSIVE FindIOItems(_, _)
FindIOItems(node_id, items) ==
    IF items = <<>> THEN NotFound
    ELSE IF IsDict(Head(items)) /\ IdIs(Head(items), node_id) THEN Found(Head(items))
         ELSE FindIOItems(node_id, Tail(items))

\* lines 222-226: the inputs, then the outputs
FindIO(node_id, app) ==
    LET inputs == Get(app, "inputs", EmptyList)
        outputs == Get(app, "outputs", EmptyList)
        r == IF Iterable(inputs) THEN FindIOItems(node_id, Items(inputs)) ELSE Raised
    IN  OrElse(r, IF Iterable(outputs) THEN FindIOItems(node_id, Items(outputs))
                  ELSE Raised)

\* lines 213-226
RECURSIVE FindApplications(_, _)
FindApplications(node_id, items) ==
    IF items = <<>> THEN NotFound
    ELSE LET app == Head(items) IN
         IF ~IsDict(app) THEN FindApplications(node_id, Tail(items))
         ELSE IF IdIs(app, node_id) THEN Found(app)
         ELSE LET r == FindIO(node_id, app)
              IN  OrElse(r, FindApplications(node_id, Tail(items)))

\* lines 204-226
RECURSIVE FindTechniques(_, _)
FindTechniques(node_id, items) ==
    IF items = <<>> THEN NotFound
    ELSE LET technique == Head(items) IN
         IF ~IsDict(technique) THEN FindTechniques(node_id, Tail(items))
         ELSE IF IdIs(technique, node_id) THEN Found(technique)
         ELSE LET applications == Get(technique, "applications", EmptyList)
                  r == IF Iterable(applications)
                       THEN FindApplications(node_id, Items(applications))
                       ELSE Raised
              IN  OrElse(r, FindTechniques(node_id, Tail(items)))

\* lines 197-226
FindIntegration(node_id, spec) ==
    LET integration == Get(spec, "integration", Null) IN
    IF ~(PyBool(integration) /\ IsDict(integration)) THEN NotFound
    ELSE IF IdIs(integration, node_id) THEN Found(integration)
    ELSE LET techniques == Get(integration, "techniques", EmptyList)
         IN  IF Iterable(techniques)
             THEN FindTechniques(node_id, Items(techniques))
             ELSE Raised

\* lines 188-226
RECURSIVE FindSpecifications(_, _)
FindSpecifications(node_id, items) ==
    IF items = <<>> THEN NotFound
    ELSE LET spec == Head(items) IN
         IF ~IsDict(spec) THEN FindSpecifications(node_id, Tail(items))
         ELSE IF IdIs(spec, node_id) THEN Found(spec)
         ELSE LET r == FindIntegration(node_id, spec)
              IN  OrElse(r, FindSpecifications(node_id, Tail(items)))

\* lines 179-226
RECURSIVE FindFunctions(_, _)
FindFunctions(node_id, items) ==
    IF items = <<>> THEN NotFound
    ELSE LET function == Head(items) IN
         IF ~IsDict(function) THEN FindFunctions(node_id, Tail(items))
         ELSE IF IdIs(function, node_id) THEN Found(function)
         ELSE LET specifications == Get(function, "specifications", EmptyList)
                  r == IF Iterable(specifications)
                       THEN FindSpecifications(node_id, Items(specifications))
                       ELSE Raised
              IN  OrElse(r, FindFunctions(node_id, Tail(items)))

\* lines 170-226
RECURSIVE FindCapabilities(_, _)
FindCapabilities(node_id, items) ==
    IF items = <<>> THEN NotFound
    ELSE LET capability == Head(items) IN
         IF ~IsDict(capability) THEN FindCapabilities(node_id, Tail(items))
         ELSE IF IdIs(capability, node_id) THEN Found(capability)
         ELSE LET functions == Get(capability, "functions", EmptyList)
                  r == IF Iterable(functions)
                       THEN FindFunctions(node_id, Items(functions))
                       ELSE Raised
              IN  OrElse(r, FindCapabilities(node_id, Tail(items)))

\* lines 162-168: the capability list the search walks, or "skip this
\* subcomponent" (an empty walk) when it is missing or not a list
SearchedCapabilities(subcomp) ==
    IF ~(IsDict(subcomp) /\ Has(subcomp, "capabilities")) THEN <<>>
    ELSE LET raw == subcomp.capabilities
             capabilities == IF IsDict(raw) THEN Get(raw, "items", EmptyList) ELSE raw
         IN  IF IsList(capabilities) THEN capabilities.v ELSE <<>>

\* lines 155-228
RECURSIVE find_nested_node(_, _)
find_nested_node(node_id, subcomponents) ==
    IF subcomponents = <<>> THEN NotFound
    ELSE LET r == FindCapabilities(node_id, SearchedCapabilities(Head(subcomponents).doc))
         IN  OrElse(r, find_nested_node(node_id, Tail(subcomponents)))

-----------------------------------------------------------------------------
(* get_node_details and the /api/details handler *)

ErrorBody(node_id, name, type) ==
    [t |-> "dict", id |-> node_id, name |-> name, type |-> type]

\* lines 284-292
NotFoundResult(node_id) ==
    [status |-> 404, body |-> ErrorBody(node_id, "Unknown Node", "unknown")]

\* node_details, lines 65-74 of app.py: an exception out of get_node_details
HandlerError(node_id) ==
    [status |-> 500, body |-> ErrorBody(node_id, "Error Loading Node", "error")]

\* lines 260-277
SubcomponentResult(node_id, subcomponents) ==
    LET subcomp_data == Lookup(subcomponents, node_id) IN
    IF ~IsDict(subcomp_data)
    THEN [status |-> 500, body |-> ErrorBody(node_id, "Error Processing Node", "error")]
    ELSE [status |-> 200, body |-> subcomp_data]

\* lines 279-292
NestedAnswer(node_id, nested_node) ==
    CASE nested_node.st = "raised" -> HandlerError(node_id)
      [] nested_node.st = "found" /\ PyBool(nested_node.node) ->
            [status |-> 200, body |-> nested_node.node]
      [] OTHER -> NotFoundResult(node_id)

\* line 280: nested_node = find_nested_node(node_id, subcomponents)
NestedResult(node_id, subcomponents) ==
    NestedAnswer(node_id, find_nested_node(node_id, subcomponents))

\* mutant: the nested search runs before the subcomponent check
ResolveNestedFirst(node_id, root_data, components, subcomponents) ==
    IF node_id = "ai-alignment" THEN [status |-> 200, body |-> root_data]
    ELSE IF ~(IsDict(root_data) /\ Has(root_data, "id")) THEN HandlerError(node_id)
    ELSE IF node_id = root_data.id THEN [status |-> 200, body |-> root_data]
    ELSE IF node_id \in Keys(components)
         THEN [status |-> 200, body |-> Lookup(components, node_id)]
    ELSE IF NestedResult(node_id, subcomponents).status = 200
         THEN NestedResult(node_id, subcomponents)
    ELSE IF node_id \in Keys(subcomponents)
         THEN SubcomponentResult(node_id, subcomponents)
    ELSE NotFoundResult(node_id)

\* lines 250-292 on loaded data
Resolve(node_id, root_data, components, subcomponents) ==
    IF node_id = "ai-alignment" THEN [status |-> 200, body |-> root_data]
    ELSE IF ~(IsDict(root_data) /\ Has(root_data, "id")) THEN HandlerError(node_id)
    ELSE IF node_id = root_data.id THEN [status |-> 200, body |-> root_data]
    ELSE IF node_id \in Keys(components)
         THEN [status |-> 200, body |-> Lookup(components, node_id)]
    ELSE IF node_id \in Keys(subcomponents)
         THEN SubcomponentResult(node_id, subcomponents)
    ELSE NestedResult(node_id, subcomponents)

\* get_node_details from the files, as the handler answers it
ResolveLoaded(node_id, root_data, components, loaded) ==
    IF loaded.raised THEN HandlerError(node_id)
    ELSE Resolve(node_id, root_data, components, loaded.map)

\* lines 233-246: the three loads, then the checks
get_node_details(node_id, root, components_dir, subcomponents_dir) ==
    ResolveLoaded(node_id, get_root_data(root), helper_get_components(components_dir),
                  helper_get_subcomponents(subcomponents_dir))

-----------------------------------------------------------------------------
(* hierarchy_path *)

\* the first node of the list with this id: its index, 0 when there is none
First(nodes, id) ==
    IF \E i \in 1..Len(nodes) : nodes[i].id = id
    THEN CHOOSE i \in 1..Len(nodes) :
            nodes[i].id = id /\ \A j \in 1..(i - 1) : nodes[j].id # id
    ELSE 0

PathEntry(node) == [id |-> node.id, name |-> node.name, type |-> node.type]

\* the walk stops after the first parent
PathUpOneStep(nodes, current_node, path) ==
    IF ~Has(current_node, "parent") \/ First(nodes, current_node.parent) = 0 THEN path
    ELSE <<PathEntry(nodes[First(nodes, current_node.parent)])>> \o path

\* lines 94-108: the walk up the parent chain
RECURSIVE PathUp(_, _, _)
PathUp(nodes, current_node, path) ==
    IF ~Has(current_node, "parent") THEN path
    ELSE LET p == First(nodes, current_node.parent) IN
         IF p # 0 THEN PathUp(nodes, nodes[p], <<PathEntry(nodes[p])>> \o path)
         ELSE path

\* lines 80-110 on the built graph; an exception of build_graph_data is not
\* caught by the handler
PathOf(node_id, graph_data) ==
    IF graph_data.raised THEN [status |-> 500, error |-> "Internal server error"]
    ELSE LET target == First(graph_data.nodes, node_id) IN
         IF target = 0 THEN [status |-> 404, error |-> "Node not found"]
         ELSE [status |-> 200,
               path |-> PathUp(graph_data.nodes, graph_data.nodes[target],
                               <<PathEntry(graph_data.nodes[target])>>)]

\* lines 76-110
hierarchy_path(node_id, root, components_dir, subcomponents_dir) ==
    PathOf(node_id, build_graph_data(root, components_dir, subcomponents_dir))

\* lines 49-55 on the built graph
GraphOf(graph_data) ==
    IF graph_data.raised THEN [status |-> 500, nodes |-> <<>>, links |-> <<>>]
    ELSE [status |-> 200, nodes |-> graph_data.nodes, links |-> graph_data.links]

\* graph, lines 48-55
graph(root, components_dir, subcomponents_dir) ==
    GraphOf(build_graph_data(root, components_dir, subcomponents_dir))

-----------------------------------------------------------------------------
(* The document sets the model starts from.  Every fragment carries a name *)
(* that tells its place, so that a node can be traced to its fragment.     *)

MaxComponents == 2

MaxSubcomponents == 2

MaxOutputs == 2

\* stands for "the fragment has no id key"
NoId == "~"

Frag(id, name) ==
    IF id = NoId THEN [t |-> "dict", name |-> name]
    ELSE [t |-> "dict", id |-> id, name |-> name]

With(frag, key, value) == (key :> value) @@ frag

SeqsUpTo(S, n) == UNION {[1..k -> S] : k \in 0..n}

DistinctSeqsUpTo(S, n) ==
    {q \in SeqsUpTo(S, n) : \A i, j \in 1..Len(q) : i # j => q[i] # q[j]}

\* fragments with the given ids, named tag1, tag2, ...
Frags(ids, tag) == [i \in 1..Len(ids) |-> Frag(ids[i], tag \o ToString(i))]

RootDoc(id) ==
    [t |-> "dict", id |-> id, name |-> "Root", description |-> "root document",
     type |-> "component_group"]

RootFiles == {MissingFile, RootDoc("ai-alignment"), RootDoc("a")}

ComponentDoc(key) == [t |-> "dict", name |-> "Component " \o key]

ComponentKeys == {"a", "b", "ai-alignment"}

ComponentDirs ==
    {[exists |-> FALSE, files |-> <<>>]} \cup
    {[exists |-> TRUE,
      files |-> [i \in 1..Len(keys) |-> [key |-> keys[i], data |-> ComponentDoc(keys[i])]]] :
        keys \in DistinctSeqsUpTo(ComponentKeys, MaxComponents)}

Dir(files) == [exists |-> TRUE, files |-> files]

(* The shallow family: the root, the components and the subcomponents vary *)

ShallowCapabilities ==
    { List(<<With(Frag("a", "cap"), "type", "output")>>),
      [t |-> "dict", items |-> List(<<With(Frag(NoId, "cap"), "functions",
                                           List(<<Frag("s", "fn")>>))>>)] }

ShallowSubcomponentDocs ==
    LET base == {[t |-> "dict", name |-> "Sub"]} \cup
                {[t |-> "dict", name |-> "Sub", parent |-> p] : p \in {"a", "b"}}
    IN  base \cup {With(d, "capabilities", c) : d \in base, c \in ShallowCapabilities}
             \cup {List(<<[t |-> "str", s |-> "id"]>>)}

SubcomponentKeys == {"a", "s"}

ShallowSubcomponentDirs ==
    UNION {{Dir([i \in 1..Len(keys) |-> [key |-> keys[i], data |-> docs[i]]]) :
                docs \in [1..Len(keys) -> ShallowSubcomponentDocs]} :
           keys \in DistinctSeqsUpTo(SubcomponentKeys, MaxSubcomponents)}

ShallowDocSets ==
    {[root |-> r, components |-> c, subcomponents |-> s] :
        r \in RootFiles, c \in ComponentDirs, s \in ShallowSubcomponentDirs}

(* The deep family: one component "b" with one subcomponent "a" that holds *)
(* one chain capability - function - specification - integration -         *)
(* technique, whose ids vary, above one or two applications.               *)

\* the outputs nested in an input: none, a list, or a single object
NestedChoices ==
    {Null} \cup
    {List(Frags(ids, "n")) : ids \in {<<"o1">>, <<"o1", "o2">>, <<"o2", "o2">>}} \cup
    {Frag(id, "n1") : id \in {NoId, "o2"}}

InputFrags ==
    {IF n = Null THEN Frag(id, "in") ELSE With(Frag(id, "in"), "outputs", n) :
        id \in {NoId, "o1"}, n \in NestedChoices}

InputLists == {<<>>} \cup {<<i>> : i \in InputFrags}

\* an application's own outputs; the last two hold an explicit id of the
\* form the builder synthesizes for the outputs of application "p"
OutputLists ==
    {Frags(ids, "s") : ids \in SeqsUpTo({NoId, "o1", "o2"}, MaxOutputs)} \cup
    {Frags(<<NoId, "p-output-0">>, "s"), Frags(<<"p-output-1", NoId>>, "s")}

FirstApps ==
    {With(With(Frag(id, "app1"), "inputs", List(ins)), "outputs", List(outs)) :
        id \in {NoId, "p"}, ins \in InputLists, outs \in OutputLists}

SecondApps ==
    {With(Frag(id, "app2"), "outputs", List(Frags(ids, "t"))) :
        id \in {NoId, "p"}, ids \in {<<>>, <<"o1">>, <<NoId>>}}

AppLists == {<<a>> : a \in FirstApps} \cup {<<a, b>> : a \in FirstApps, b \in SecondApps}

\* the chain above the applications, with the given ids
Chain(cap_id, fn_id, spec_id, int_id, tech_id, apps) ==
    With(With(Frag(cap_id, "cap"), "type", "function"), "functions", List(<<
      With(Frag(fn_id, "fn"), "specifications", List(<<
        With(With(Frag(spec_id, "spec"), "type", "component"), "integration",
          With(Frag(int_id, "int"), "techniques", List(<<
            With(Frag(tech_id, "tech"), "applications", List(apps))>>)))>>))>>))

DeepSubcomponent(caps) ==
    Dir(<<[key |-> "a", data |-> [t |-> "dict", name |-> "Sub", parent |-> "b",
                                  capabilities |-> List(caps)]]>>)

DeepDocSet(caps) ==
    [root |-> RootDoc("ai-alignment"),
     components |-> Dir(<<[key |-> "b", data |-> ComponentDoc("b")]>>),
     subcomponents |-> DeepSubcomponent(caps)]

\* the applications vary, under a chain of synthesized ids; with a single
\* application, the technique may carry an output's id, and a capability
\* with an output's id may follow the chain
AppDocSets ==
    {DeepDocSet(<<Chain(NoId, NoId, NoId, NoId, NoId, apps)>>) : apps \in AppLists} \cup
    {DeepDocSet(<<Chain(NoId, NoId, NoId, NoId, "o2", <<a>>)>>) : a \in FirstApps} \cup
    {DeepDocSet(<<Chain(NoId, NoId, NoId, NoId, NoId, <<a>>), Frag("o1", "cap2")>>) :
        a \in FirstApps}

\* the ids of the chain vary, above one application
ChainDocSets ==
    {DeepDocSet(<<Chain(cap_id, fn_id, spec_id, int_id, tech_id,
                        <<With(With(Frag(app_id, "app1"), "inputs", List(<<Frag(NoId, "in")>>)),
                               "outputs", List(<<Frag("o1", "s1")>>))>>)>>) :
        cap_id \in {NoId, "a", "x"}, fn_id \in {NoId, "x"}, spec_id \in {NoId, "b"},
        int_id \in {NoId, "x"}, tech_id \in {NoId, "o1"}, app_id \in {NoId, "x"}}

(* The malformed family: a subcomponent file that holds an array, or a     *)
(* capability whose functions field is null, a string or a list of         *)
(* numbers, or whose specification has a string for its integration,       *)
(* alone or beside a sound file.                                           *)

MalformedFunctions ==
    { Null,
      [t |-> "str", s |-> "x"],
      List(<<[t |-> "num", n |-> 1]>>),
      List(<<With(Frag(NoId, "fn"), "specifications",
                  List(<<With(Frag(NoId, "spec"), "integration", [t |-> "str", s |-> "x"])>>))>>) }

MalformedSubcomponentDocs ==
    { List(<<[t |-> "str", s |-> "x"]>>) } \cup
    { [t |-> "dict", name |-> "Sub", parent |-> "b",
       capabilities |-> List(<<With(Frag("x", "cap"), "functions", f)>>)] :
         f \in MalformedFunctions } \cup
    { [t |-> "dict", name |-> "Sub", parent |-> "b",
       capabilities |-> List(<<With(Frag("x", "cap"), "functions", Null),
                               Frag("o1", "cap2")>>)] }

MalformedDocSets ==
    LET sound == [key |-> "s", data |-> [t |-> "dict", name |-> "Sub", parent |-> "b"]]
    IN  {[root |-> RootDoc("ai-alignment"),
          components |-> Dir(<<[key |-> "b", data |-> ComponentDoc("b")]>>),
          subcomponents |-> Dir(files)] :
            files \in UNION {{<<[key |-> "a", data |-> m]>>,
                              <<[key |-> "a", data |-> m], sound>>,
                              <<sound, [key |-> "a", data |-> m]>>} :
                             m \in MalformedSubcomponentDocs}}

(* The failing family: a root file, or a subcomponent file beside a sound  *)
(* one, that load_json_file gives no document for, or an empty document.   *)

FailingFiles ==
    { [t |-> "unreadable"], [t |-> "blank"], [t |-> "text"], [t |-> "broken"],
      Null, [t |-> "num", n |-> 5], [t |-> "dict"], EmptyList }

FailingDocSets ==
    LET sound == [key |-> "s", data |-> [t |-> "dict", name |-> "Sub", parent |-> "b"]]
        b == Dir(<<[key |-> "b", data |-> ComponentDoc("b")]>>)
    IN  {[root |-> f, components |-> c, subcomponents |-> Dir(<<sound>>)] :
            f \in FailingFiles, c \in {b, [exists |-> FALSE, files |-> <<>>]}} \cup
        {[root |-> RootDoc("ai-alignment"), components |-> b,
          subcomponents |-> Dir(<<[key |-> "a", data |-> f], sound>>)] : f \in FailingFiles} \cup
        {[root |-> RootDoc("ai-alignment"),
          components |-> Dir(<<[key |-> "a", data |-> f], [key |-> "b", data |-> ComponentDoc("b")]>>),
          subcomponents |-> Dir(<<sound>>)] : f \in FailingFiles}

DocSets ==
    ShallowDocSets \cup AppDocSets \cup ChainDocSets \cup MalformedDocSets \cup FailingDocSets

-----------------------------------------------------------------------------
(* The server: the backing files never change; a request is handled from   *)
(* freshly loaded data and its response is sent before the next one.       *)

NoResponse == [op |-> "none"]

\* the ids a client asks details for
RequestIds == {"ai-alignment", "a", "b", "s", "x", "o1", "o2", "value-learning", "missing"}

\* the ids of the nodes of a node list
Ids(nodes) == {nodes[i].id : i \in 1..Len(nodes)}

\* the ids a client asks the path of: also the ids of the graph it was served
PathRequestIds ==
    RequestIds \cup
    Ids(build_graph_data(root_file, component_files, subcomponent_files).nodes)

\* the worker threads of the threaded server, one request each at a time
MaxThreads == 2

Threads == 1..MaxThreads

\* a thread's frame: the request, where its handler stands, and the locals
\* root_data, components, subcomponents of build_graph_data (lines 207-209)
\* or get_node_details (lines 233-246); result is the response it computed
FreshThread ==
    [op |-> "none", node_id |-> "", at |-> "idle", root_data |-> Null,
     components |-> <<>>, subcomponents |-> [map |-> <<>>, raised |-> FALSE],
     result |-> NoResponse]

Init ==
    /\ \E d \in DocSets :
          /\ root_file = d.root
          /\ component_files = d.components
          /\ subcomponent_files = d.subcomponents
    /\ pc = "idle"
    /\ response = NoResponse
    /\ threads = [t \in Threads |-> FreshThread]
    /\ default_root_data = DEFAULT_ROOT_DATA

\* GET /api/graph
Graph ==
    /\ pc = "idle"
    /\ response' = [op |-> "graph"] @@ graph(root_file, component_files, subcomponent_files)
    /\ pc' = "responded"
    /\ UNCHANGED <<root_file, component_files, subcomponent_files, threads, default_root_data>>

\* GET /api/hierarchy-path/<node_id>
HierarchyPath ==
    /\ pc = "idle"
    /\ \E node_id \in PathRequestIds :
          response' = [op |-> "hierarchy_path", node_id |-> node_id] @@
                      hierarchy_path(node_id, root_file, component_files, subcomponent_files)
    /\ pc' = "responded"
    /\ UNCHANGED <<root_file, component_files, subcomponent_files, threads, default_root_data>>

\* GET /api/details/<node_id>
NodeDetails ==
    /\ pc = "idle"
    /\ \E node_id \in RequestIds :
          response' = [op |-> "details", node_id |-> node_id] @@
                      get_node_details(node_id, root_file, component_files, subcomponent_files)
    /\ pc' = "responded"
    /\ UNCHANGED <<root_file, component_files, subcomponent_files, threads, default_root_data>>

\* root_details, lines 693-704: an exception out of get_node_details gets
\* a body of its own
root_details(root, components_dir, subcomponents_dir) ==
    IF helper_get_subcomponents(subcomponents_dir).raised
    THEN [status |-> 500,
          body |-> [t |-> "dict", error |-> "Server error processing root node"]]
    ELSE get_node_details("ai-alignment", root, components_dir, subcomponents_dir)

\* GET /api/root
RootDetails ==
    /\ pc = "idle"
    /\ response' = [op |-> "root"] @@
                   root_details(root_file, component_files, subcomponent_files)
    /\ pc' = "responded"
    /\ UNCHANGED <<root_file, component_files, subcomponent_files, threads, default_root_data>>

\* the response is sent; the server waits for the next request
Reply ==
    /\ pc = "responded"
    /\ pc' = "idle"
    /\ response' = NoResponse
    /\ UNCHANGED <<root_file, component_files, subcomponent_files, threads, default_root_data>>

Next == Graph \/ HierarchyPath \/ NodeDetails \/ RootDetails \/ Reply

Spec == Init /\ [][Next]_vars

-----------------------------------------------------------------------------
(* The threaded server: every request runs its handler in a thread of its  *)
(* own, and the handlers interleave between their calls of the loaders.    *)
(* What the running program shares between threads is the backing files    *)
(* and the module object DEFAULT_ROOT_DATA; response is here the response  *)
(* sent last.                                                              *)

ConcRequestIds == {"a", "missing"}

\* the document sets served: the chains, the malformed files, and small
\* shallow sets where the root file or the components directory is missing
ConcDocSets ==
    MalformedDocSets \cup
    {d \in ChainDocSets : d.subcomponents.files[1].data.capabilities.v[1].functions.v[1]
                              .specifications.v[1].integration.techniques.v[1]
                              .applications.v[1] = With(With(Frag(NoId, "app1"), "inputs",
                                  List(<<Frag(NoId, "in")>>)), "outputs", List(<<Frag("o1", "s1")>>))} \cup
    {d \in ShallowDocSets :
        /\ Len(d.components.files) <= 1
        /\ Len(d.subcomponents.files) = 1
        /\ d.subcomponents.files[1].key = "s"
        /\ Has(d.subcomponents.files[1].data, "parent")
        /\ Has(d.subcomponents.files[1].data, "capabilities")}

ConcInit ==
    /\ \E d \in ConcDocSets :
          /\ root_file = d.root
          /\ component_files = d.components
          /\ subcomponent_files = d.subcomponents
    /\ pc = "idle"
    /\ response = NoResponse
    /\ threads = [t \in Threads |-> FreshThread]
    /\ default_root_data = DEFAULT_ROOT_DATA

Shared == <<root_file, component_files, subcomponent_files, pc, default_root_data>>

\* one frame for all threads: the mappings loaded last by the first thread
LocalsOfFirstThread(t) ==
    IF threads[1].at \in {"loaded", "done"} THEN threads[1] ELSE threads[t]

\* the locals a handler running in thread t works on: those of its own frame
Locals(t) == threads[t]

\* a request arrives and a thread starts its handler
Accept(t) ==
    /\ threads[t].at = "idle"
    /\ \/ threads' = [threads EXCEPT ![t] = [FreshThread EXCEPT !.op = "graph", !.at = "start"]]
       \/ \E op \in {"hierarchy_path", "details"}, node_id \in ConcRequestIds :
             threads' = [threads EXCEPT ![t] =
                            [FreshThread EXCEPT !.op = op, !.node_id = node_id, !.at = "start"]]
    /\ UNCHANGED <<Shared, response>>

\* root_data = get_root_data()
LoadRoot(t) ==
    /\ threads[t].at = "start"
    /\ threads' = [threads EXCEPT ![t].root_data = RootOrDefault(default_root_data, root_file),
                                  ![t].at = "root"]
    /\ UNCHANGED <<Shared, response>>

\* components = get_components(), of the module the handler runs in
LoadComponents(t) ==
    /\ threads[t].at = "root"
    /\ threads' = [threads EXCEPT
                      ![t].components =
                          IF threads[t].op = "details"
                          THEN helper_get_components(component_files)
                          ELSE ComponentsOrDefault(default_root_data, component_files),
                      ![t].at = "components"]
    /\ UNCHANGED <<Shared, response>>

\* subcomponents = get_subcomponents(); data["id"] = subcomponent_id is
\* written into the document parsed by this call
LoadSubcomponents(t) ==
    /\ threads[t].at = "components"
    /\ threads' = [threads EXCEPT
                      ![t].subcomponents =
                          IF threads[t].op = "details"
                          THEN helper_get_subcomponents(subcomponent_files)
                          ELSE [map |-> app_get_subcomponents(subcomponent_files),
                                raised |-> FALSE],
                      ![t].at = "loaded"]
    /\ UNCHANGED <<Shared, response>>

\* the rest of the handler, on the thread's locals
Answer(op, node_id, root_data, components, loaded) ==
    IF op = "graph" THEN GraphOf(BuildGraph(root_data, components, loaded.map))
    ELSE IF op = "hierarchy_path"
         THEN PathOf(node_id, BuildGraph(root_data, components, loaded.map))
         ELSE ResolveLoaded(node_id, root_data, components, loaded)

Finish(t) ==
    /\ threads[t].at = "loaded"
    /\ threads' = [threads EXCEPT
                      ![t].result = Answer(threads[t].op, threads[t].node_id,
                                           Locals(t).root_data, Locals(t).components,
                                           Locals(t).subcomponents),
                      ![t].at = "done"]
    /\ UNCHANGED <<Shared, response>>

\* the response is sent and the thread is free again
Send(t) ==
    /\ threads[t].at = "done"
    /\ response' = [op |-> threads[t].op, node_id |-> threads[t].node_id,
                    result |-> threads[t].result]
    /\ threads' = [threads EXCEPT ![t] = FreshThread]
    /\ UNCHANGED Shared

ConcNext ==
    \E t \in Threads :
        Accept(t) \/ LoadRoot(t) \/ LoadComponents(t) \/ LoadSubcomponents(t)
                  \/ Finish(t) \/ Send(t)

ConcSpec == ConcInit /\ [][ConcNext]_vars

-----------------------------------------------------------------------------
(* Properties.  GraphServed: the last response is a graph that was built.  *)

GraphServed == response.op = "graph" /\ response.status = 200

HasType(nodes, type) == \E i \in 1..Len(nodes) : nodes[i].type = type

\* C1: in a served node list every node but the first (the root) has a
\* parent, and that parent is the id of a node placed earlier in the list;
\* the root has none.
C1_ParentPlacedEarlier ==
    GraphServed =>
        LET nodes == response.nodes IN
        /\ ~Has(nodes[1], "parent")
        /\ \A i \in 2..Len(nodes) :
              /\ Has(nodes[i], "parent")
              /\ \E j \in 1..(i - 1) : nodes[j].id = nodes[i].parent

\* a full-depth graph: every level down to inputs and outputs was emitted
C1_Witness ==
    /\ GraphServed
    /\ HasType(response.nodes, "input")
    /\ HasType(response.nodes, "output")
    /\ HasType(response.nodes, "integration")

\* C2 (as claimed): no two nodes of a served node list have the same id.
C2_UniqueNodeIds ==
    GraphServed =>
        \A i, j \in 1..Len(response.nodes) :
            i # j => response.nodes[i].id # response.nodes[j].id

LevelOfType(type) ==
    CASE type = "component_group" -> 0
      [] type = "component" -> 1
      [] type = "subcomponent" -> 2
      [] type = "capability" -> 3
      [] type = "function" -> 4
      [] type = "specification" -> 5
      [] type = "integration" -> 6
      [] type = "technique" -> 7
      [] type = "application" -> 8
      [] type = "input" -> 9
      [] type = "output" -> 9
      [] OTHER -> -1

\* C3: every served node has the level fixed by its type, whatever "type"
\* its fragment declares.
C3_LevelFixedByType ==
    GraphServed =>
        \A i \in 1..Len(response.nodes) :
            response.nodes[i].level = LevelOfType(response.nodes[i].type)

\* a served full-depth graph whose capability fragment declares the type
\* "function" and whose specification fragment declares "component"
C3_Witness ==
    /\ GraphServed
    /\ HasType(response.nodes, "output")
    /\ HasType(response.nodes, "specification")
    /\ LET caps == Capabilities(subcomponent_files.files[1].data).v IN
       /\ caps[1].type = "function"
       /\ caps[1].functions.v[1].specifications.v[1].type = "component"

-----------------------------------------------------------------------------
(* The application fragments of the documents, in the order the builder    *)
(* meets them, read off the documents level by level.                      *)

RECURSIVE Concat(_)
Concat(qs) == IF qs = <<>> THEN <<>> ELSE Head(qs) \o Concat(Tail(qs))

\* the object entries of the field of each fragment, in order
ChildrenOf(frags, field) ==
    SelectSeq(Concat([i \in 1..Len(frags) |->
                        LET c == Get(frags[i], field, EmptyList)
                        IN  IF IsList(c) THEN c.v ELSE <<>>]),
              IsDict)

\* the integration objects of the specifications, in order
IntegrationsOf(specs) ==
    Concat([i \in 1..Len(specs) |->
              LET g == Get(specs[i], "integration", Null)
              IN  IF IsDict(g) /\ PyBool(g) THEN <<g>> ELSE <<>>])

LoadedComponents == app_get_components(component_files)

LoadedSubcomponents == app_get_subcomponents(subcomponent_files)

\* the subcomponent documents the builder visits, in its order
VisitedSubcomponents ==
    Concat([i \in 1..Len(LoadedComponents) |->
              LET mine == ComponentSubcomponents(LoadedSubcomponents, LoadedComponents[i].key)
              IN  [j \in 1..Len(mine) |-> mine[j].doc]])

VisitedCapabilities ==
    SelectSeq(Concat([i \in 1..Len(VisitedSubcomponents) |->
                        LET c == Capabilities(VisitedSubcomponents[i])
                        IN  IF IsList(c) THEN c.v ELSE <<>>]),
              IsDict)

VisitedApps ==
    ChildrenOf(ChildrenOf(IntegrationsOf(ChildrenOf(ChildrenOf(VisitedCapabilities,
        "functions"), "specifications")), "techniques"), "applications")

\* the candidate outputs of an application: its own, then those nested in
\* each input (a list, or one object)
Candidates(app) ==
    LET inputs == SelectSeq(Get(app, "inputs", EmptyList).v, IsDict)
        nested(i) == LET o == Get(inputs[i], "outputs", Null)
                     IN  CASE IsList(o) -> o.v [] IsDict(o) -> <<o>> [] OTHER -> <<>>
    IN  SelectSeq(Get(app, "outputs", EmptyList).v \o
                  Concat([i \in 1..Len(inputs) |-> nested(i)]), IsDict)

\* the positions of the application nodes in a node list, ascending
AppPositions(nodes) ==
    LET P == {i \in 1..Len(nodes) : nodes[i].type = "application"}
    IN  [k \in 1..Cardinality(P) |->
            CHOOSE i \in P : Cardinality({j \in P : j < i}) = k - 1]

\* the output nodes emitted for the application node at position i: those
\* among the inputs and outputs that directly follow it
OutputsAfter(nodes, i) ==
    LET leaf(j) == nodes[j].type \in {"input", "output"}
        run == {j \in (i + 1)..Len(nodes) : \A m \in (i + 1)..j : leaf(m)}
    IN  SelectSeq([j \in 1..Cardinality(run) |-> nodes[i + j]],
                  LAMBDA n : n.type = "output")

ExplicitId(frag) == Get(frag, "id", "")

\* the first candidate with this id
FirstWithId(cands, id) ==
    cands[CHOOSE i \in 1..Len(cands) :
            ExplicitId(cands[i]) = id /\ \A j \in 1..(i - 1) : ExplicitId(cands[j]) # id]

CandidateIds(cands) == {ExplicitId(cands[i]) : i \in 1..Len(cands)} \ {""}

\* the application with outputs [{id: o1}] and one input whose nested
\* outputs are [{id: o1}, {id: o2}]
IsDedupExample(app) ==
    /\ Has(app, "outputs") /\ Has(app, "inputs")
    /\ [i \in 1..Len(app.outputs.v) |-> ExplicitId(app.outputs.v[i])] = <<"o1">>
    /\ Len(app.inputs.v) = 1
    /\ IsDict(app.inputs.v[1]) /\ Has(app.inputs.v[1], "outputs")
    /\ IsList(app.inputs.v[1].outputs)
    /\ [i \in 1..Len(app.inputs.v[1].outputs.v) |->
            ExplicitId(app.inputs.v[1].outputs.v[i])] = <<"o1", "o2">>

\* at most one output node under one parent carries a given id
OneOutputPerId(nodes) ==
    \A i, j \in 1..Len(nodes) :
        (/\ i # j
         /\ nodes[i].type = "output" /\ nodes[j].type = "output"
         /\ nodes[i].parent = nodes[j].parent) => nodes[i].id # nodes[j].id

\* C4 (as claimed): for each non-empty id among an application's candidate
\* outputs at most one output node is emitted under the application, built
\* from the first candidate with that id; the example application yields
\* exactly the output nodes o1 and o2.
C4_FirstOccurrenceKept ==
    GraphServed =>
        LET nodes == response.nodes
            at == AppPositions(nodes)
        IN  /\ OneOutputPerId(nodes)
            /\ \A k \in 1..Len(at) :
                  LET cands == Candidates(VisitedApps[k])
                      outs == OutputsAfter(nodes, at[k])
                  IN  /\ \A m \in 1..Len(outs) :
                            outs[m].id \in CandidateIds(cands) =>
                                outs[m].name = FirstWithId(cands, outs[m].id).name
                      /\ IsDedupExample(VisitedApps[k]) =>
                            [m \in 1..Len(outs) |-> outs[m].id] = <<"o1", "o2">>

\* C4 (amended): as claimed, except that the node of an id may instead be
\* built from an id-less candidate (whose synthesized id is that id), and
\* that the example yields o1 and o2 when no node emitted before the
\* application's outputs has one of these ids.
C4_FirstOccurrenceOrSynthesized ==
    GraphServed =>
        LET nodes == response.nodes
            at == AppPositions(nodes)
        IN  /\ OneOutputPerId(nodes)
            /\ \A k \in 1..Len(at) :
                  LET cands == Candidates(VisitedApps[k])
                      outs == OutputsAfter(nodes, at[k])
                      earlier == {nodes[j].id : j \in {j \in 1..Len(nodes) :
                                    j <= at[k] \/ (nodes[j].type = "input" /\
                                                   \A m \in (at[k] + 1)..j : nodes[m].type = "input")}}
                  IN  /\ \A m \in 1..Len(outs) :
                            outs[m].id \in CandidateIds(cands) =>
                                \/ outs[m].name = FirstWithId(cands, outs[m].id).name
                                \/ \E c \in 1..Len(cands) :
                                      ExplicitId(cands[c]) = "" /\ outs[m].name = cands[c].name
                      /\ (IsDedupExample(VisitedApps[k]) /\ earlier \cap {"o1", "o2"} = {}) =>
                            /\ [m \in 1..Len(outs) |-> outs[m].id] = <<"o1", "o2">>
                            /\ [m \in 1..Len(outs) |-> outs[m].name] = <<"s1", "n2">>

\* the example application was built and gave the output nodes o1 (its own
\* output) and o2 (the second nested output)
C4_Witness ==
    /\ GraphServed
    /\ Len(VisitedApps) >= 1
    /\ IsDedupExample(VisitedApps[1])
    /\ LET outs == OutputsAfter(response.nodes, AppPositions(response.nodes)[1])
       IN  [m \in 1..Len(outs) |-> outs[m].name] = <<"s1", "n2">>

\* C5 (as claimed): an output is emitted only when its id is the id of no
\* node emitted so far, with exactly one has_output link; and an id first
\* emitted as an output is carried by no other node and by one has_output
\* link.
C5_OutputIdNeverRepeated ==
    GraphServed =>
        LET nodes == response.nodes
            links == response.links
        IN  \A i \in 1..Len(nodes) :
                nodes[i].type = "output" =>
                    /\ \A j \in 1..(i - 1) : nodes[j].id # nodes[i].id
                    /\ \A j \in 1..Len(nodes) : j # i => nodes[j].id # nodes[i].id
                    /\ Cardinality({k \in 1..Len(links) :
                            links[k].type = "has_output" /\ links[k].target = nodes[i].id}) = 1

-----------------------------------------------------------------------------
(* The resolver's data, as node_details_helper loads it *)

ResolverRoot == get_root_data(root_file)

ResolverComponents == helper_get_components(component_files)

ResolverLoad == helper_get_subcomponents(subcomponent_files)

ResolverSubcomponents == ResolverLoad.map

DetailsServed == response.op = "details"

IsRootId(node_id) ==
    node_id = "ai-alignment" \/ (Has(ResolverRoot, "id") /\ node_id = ResolverRoot.id)

\* the requested id is a key of the loaded subcomponents mapping, not the
\* root's id and no component key
SubcomponentKeyRequested ==
    /\ DetailsServed
    /\ ~ResolverLoad.raised
    /\ response.node_id \in Keys(ResolverSubcomponents)
    /\ ~IsRootId(response.node_id)
    /\ response.node_id \notin Keys(ResolverComponents)

SubcomponentFileKeys ==
    IF ~subcomponent_files.exists THEN {}
    ELSE {subcomponent_files.files[i].key :
            i \in {j \in 1..Len(subcomponent_files.files) :
                     PyBool(load_json_file(subcomponent_files.files[j].data))}}

\* C7 (as claimed): "ai-alignment" and the root id always get the root
\* document, whatever the component and subcomponent keys are, and an id
\* that is a component key and a subcomponent key gets the component
\* document.
C7_RootThenComponent ==
    DetailsServed =>
        /\ IsRootId(response.node_id) =>
              response.status = 200 /\ response.body = ResolverRoot
        /\ (/\ ~IsRootId(response.node_id)
            /\ response.node_id \in Keys(ResolverComponents)
            /\ response.node_id \in SubcomponentFileKeys) =>
              /\ response.status = 200
              /\ response.body = Lookup(ResolverComponents, response.node_id)

\* the object documents among the subcomponent files
SubcomponentObjects ==
    IF ~subcomponent_files.exists THEN <<>>
    ELSE LET f == subcomponent_files.files
         IN  SelectSeq([i \in 1..Len(f) |-> load_json_file(f[i].data)], IsDict)

\* the fragments the nested search walks, level by level
SearchedCaps ==
    SelectSeq(Concat([i \in 1..Len(SubcomponentObjects) |->
                LET raw == Get(SubcomponentObjects[i], "capabilities", EmptyList)
                    c == IF IsDict(raw) THEN Get(raw, "items", EmptyList) ELSE raw
                IN  IF IsList(c) THEN c.v ELSE <<>>]), IsDict)

SearchedFns == ChildrenOf(SearchedCaps, "functions")

SearchedSpecs == ChildrenOf(SearchedFns, "specifications")

SearchedInts == IntegrationsOf(SearchedSpecs)

SearchedTechs == ChildrenOf(SearchedInts, "techniques")

SearchedApps == ChildrenOf(SearchedTechs, "applications")

SearchedFragments ==
    SearchedCaps \o SearchedFns \o SearchedSpecs \o SearchedInts \o SearchedTechs
        \o SearchedApps \o ChildrenOf(SearchedApps, "inputs")
        \o ChildrenOf(SearchedApps, "outputs")

SearchedIds ==
    {SearchedFragments[i].id : i \in {j \in 1..Len(SearchedFragments) :
                                        Has(SearchedFragments[j], "id")}}

Matched(node_id) ==
    \/ IsRootId(node_id)
    \/ node_id \in Keys(ResolverComponents)
    \/ node_id \in SubcomponentFileKeys
    \/ node_id \in SearchedIds

\* the field, where a fragment has it, is an array
ArrayField(frags, field) ==
    \A i \in 1..Len(frags) : Has(frags[i], field) => IsList(frags[i][field])

\* every subcomponent file holds an object and every child field is an array
WellFormed ==
    /\ subcomponent_files.exists =>
          \A i \in 1..Len(subcomponent_files.files) :
              PyBool(load_json_file(subcomponent_files.files[i].data)) =>
                  IsDict(subcomponent_files.files[i].data)
    /\ ArrayField(SearchedCaps, "functions")
    /\ ArrayField(SearchedFns, "specifications")
    /\ ArrayField(SearchedInts, "techniques")
    /\ ArrayField(SearchedTechs, "applications")
    /\ ArrayField(SearchedApps, "inputs")
    /\ ArrayField(SearchedApps, "outputs")

\* C8 (as claimed): the answer is 404, with type "unknown" and the
\* requested id in the body, exactly when the id is not the root's, no
\* component or subcomponent key and the id of no fragment the nested
\* search reaches; with well-formed documents every other answer is 200.
C8_NotFoundExactly ==
    DetailsServed =>
        /\ response.status = 404 <=> ~Matched(response.node_id)
        /\ response.status = 404 =>
              response.body.type = "unknown" /\ response.body.id = response.node_id
        /\ (WellFormed /\ Matched(response.node_id)) => response.status = 200

-----------------------------------------------------------------------------
(* hierarchy_path *)

Built == build_graph_data(root_file, component_files, subcomponent_files)

\* the nodes of the built graph; none when the build did not complete
BuiltNodes == IF Built.raised THEN <<>> ELSE Built.nodes

PathServed == response.op = "hierarchy_path"

\* C9 (as claimed): for the id of a subcomponent node of the built graph
\* the path has exactly three entries: the root, the component that is the
\* subcomponent's parent, the subcomponent.
C9_SubcomponentPathHasThreeEntries ==
    PathServed =>
        \A i \in 1..Len(BuiltNodes) :
            (BuiltNodes[i].type = "subcomponent" /\ BuiltNodes[i].id = response.node_id) =>
                /\ response.status = 200
                /\ Len(response.path) = 3
                /\ response.path[1] = PathEntry(BuiltNodes[1])
                /\ response.path[2].type = "component"
                /\ response.path[2].id = BuiltNodes[i].parent
                /\ response.path[3] = PathEntry(BuiltNodes[i])

\* the least position of a node with this id, 0 when there is none
FirstPosition(nodes, id) ==
    LET P == {i \in 1..Len(nodes) : nodes[i].id = id}
    IN  IF P = {} THEN 0 ELSE CHOOSE i \in P : \A j \in P : i <= j

\* path[1..k] is a chain of first-found parents that ends in nodes[i]:
\* each entry is the first node whose id is the parent of the node of the
\* entry after it, and the node of the first entry has no such node
RECURSIVE IsParentChain(_, _, _, _)
IsParentChain(nodes, path, k, i) ==
    /\ path[k] = [id |-> nodes[i].id, name |-> nodes[i].name, type |-> nodes[i].type]
    /\ LET p == IF Has(nodes[i], "parent")
                THEN FirstPosition(nodes, nodes[i].parent) ELSE 0
       IN  IF k = 1 THEN p = 0
           ELSE p # 0 /\ IsParentChain(nodes, path, k - 1, p)

\* C10 (as claimed): the answer is 404 "Node not found" exactly when no
\* built node has the requested id; otherwise it is a path that ends with
\* the first node of that id and in which each entry is the first node
\* whose id is the parent of the node of the entry after it.
C10_PathFollowsFirstParents ==
    PathServed =>
        /\ response.status = 404 <=> response.node_id \notin Ids(BuiltNodes)
        /\ response.status = 404 => response.error = "Node not found"
        /\ response.status # 404 =>
              /\ response.status = 200
              /\ response.path # <<>>
              /\ response.path[Len(response.path)].id = response.node_id
              /\ IsParentChain(BuiltNodes, response.path, Len(response.path),
                               FirstPosition(BuiltNodes, response.node_id))

\* the positions the parent walk visits from position i, the last visited
\* first; a 0 in front tells that the walk was still going after "fuel"
\* steps
RECURSIVE WalkFrom(_, _, _)
WalkFrom(nodes, i, fuel) ==
    LET p == IF Has(nodes[i], "parent") THEN FirstPosition(nodes, nodes[i].parent) ELSE 0
    IN  IF p = 0 THEN <<i>>
        ELSE IF fuel = 0 THEN <<0, i>>
        ELSE WalkFrom(nodes, p, fuel - 1) \o <<i>>

\* C28: the parent walk of hierarchy_path terminates. For every id of a
\* built node, duplicates and ids shared with an ancestor included, the
\* walk from the first node of that id ends within as many steps as there
\* are nodes, visits strictly earlier positions at each step, ends at the
\* root node, and the path served holds the visited nodes, root first.
C28_ParentWalkTerminates ==
    (PathServed /\ response.status = 200) =>
        LET nodes == BuiltNodes
            walk == WalkFrom(nodes, FirstPosition(nodes, response.node_id), Len(nodes))
        IN  /\ walk[1] = 1
            /\ \A k \in 1..(Len(walk) - 1) : walk[k] < walk[k + 1]
            /\ response.path = [k \in 1..Len(walk) |-> PathEntry(nodes[walk[k]])]
            /\ response.path[1].type = "component_group"

\* the path of a function whose id is also the id of its capability, in a
\* graph where a later node has the id of an earlier one
C28_Witness ==
    /\ PathServed
    /\ response.status = 200
    /\ Len(response.path) = 4
    /\ response.path[4].id = "x"
    /\ \E i, j \in 1..Len(BuiltNodes) :
          /\ i < j
          /\ BuiltNodes[i].id = "x" /\ BuiltNodes[i].type = "capability"
          /\ BuiltNodes[j].id = "x" /\ BuiltNodes[j].type = "function"
          /\ BuiltNodes[j].parent = "x"

\* the nearest position before i whose node has a lower level than node i
Above(nodes, i) ==
    CHOOSE q \in 1..(i - 1) :
        /\ nodes[q].level < nodes[i].level
        /\ \A m \in (q + 1)..(i - 1) : nodes[m].level >= nodes[i].level

\* C29: in a served node list the root is the first node and the only one
\* without a "parent" key; the nearest earlier node of a lower level than
\* a node of level L has level L - 1 and the id that is the node's parent
\* (emission is pre-order); and under one application no input node
\* follows an output node.
C29_PreOrderEmission ==
    GraphServed =>
        LET nodes == response.nodes IN
        /\ nodes[1].level = 0
        /\ \A i \in 1..Len(nodes) : ("parent" \in DOMAIN nodes[i]) <=> i # 1
        /\ \A i \in 2..Len(nodes) :
              /\ nodes[i].level >= 1
              /\ nodes[Above(nodes, i)].level = nodes[i].level - 1
              /\ nodes[Above(nodes, i)].id = nodes[i].parent
              /\ (nodes[i].type = "input" /\ nodes[i - 1].level = 9) =>
                    nodes[i - 1].type = "input"

\* an application with an input and two outputs was emitted, the input
\* first, and another application follows its outputs
C29_Witness ==
    /\ GraphServed
    /\ \E i \in 1..Len(response.nodes) :
          /\ i + 4 <= Len(response.nodes)
          /\ response.nodes[i].type = "application"
          /\ response.nodes[i + 1].type = "input"
          /\ response.nodes[i + 2].type = "output"
          /\ response.nodes[i + 3].type = "output"
          /\ response.nodes[i + 4].type = "application"

-----------------------------------------------------------------------------
(* Malformed shapes, the expandable flags and the links *)

\* the subcomponent files that hold an object naming a loaded component as
\* its parent
SoundSubcomponentKeys ==
    {subcomponent_files.files[i].key :
        i \in {j \in 1..Len(subcomponent_files.files) :
                 LET data == subcomponent_files.files[j].data
                 IN  /\ IsDict(data) /\ Has(data, "parent")
                     /\ \E c \in 1..Len(LoadedComponents) : LoadedComponents[c].key = data.parent}}

\* C12 (as claimed): build_graph_data completes for every shape of the
\* child fields: a graph request is answered with status 200 and a node
\* list that holds the node of every subcomponent file that holds an
\* object under a loaded component, whatever its siblings hold.
C12_BuildCompletesOnAnyShape ==
    response.op = "graph" =>
        /\ response.status = 200
        /\ SoundSubcomponentKeys \subseteq Ids(response.nodes)

HasChild(nodes, i) ==
    \E j \in 1..Len(nodes) : "parent" \in DOMAIN nodes[j] /\ nodes[j].parent = nodes[i].id

\* C13 (as claimed): in a served node list a node is expandable if and
\* only if some node of the list has it as parent.
C13_ExpandableIffHasChild ==
    GraphServed =>
        \A i \in 1..Len(response.nodes) :
            response.nodes[i].expandable <=> HasChild(response.nodes, i)

\* C14 (as claimed): in a served node list has_children equals expandable
\* for every node, the root included.
C14_HasChildrenEqualsExpandable ==
    GraphServed =>
        \A i \in 1..Len(response.nodes) :
            response.nodes[i].has_children = response.nodes[i].expandable

\* the k-th link joins the parent of the k-th non-root node to that node
Mirrors(nodes, links) ==
    /\ Len(links) = Len(nodes) - 1
    /\ \A k \in 1..Len(links) :
          /\ links[k].source = nodes[k + 1].parent
          /\ links[k].target = nodes[k + 1].id
          /\ {links[k].source, links[k].target} \subseteq Ids(nodes)

\* C15: edges mirror parents. In the lists a graph request built, as
\* returned or as they stood when the build raised, there is one link per
\* non-root node, in the same order, from the node's parent to the node;
\* so len(links) = len(nodes) - 1 and no link names an id that is missing
\* from the node list.
C15_EdgesMirrorParents ==
    response.op = "graph" =>
        /\ Mirrors(Built.nodes, Built.links)
        /\ response.status = 200 => Mirrors(response.nodes, response.links)

\* a second application's only output was dropped by the check against
\* node_map, and no link was appended for it
C15_Witness ==
    /\ GraphServed
    /\ Len(VisitedApps) = 2
    /\ Len(Candidates(VisitedApps[2])) = 1
    /\ OutputsAfter(response.nodes, AppPositions(response.nodes)[2]) = <<>>
    /\ response.nodes[Len(response.nodes)].type = "application"
    /\ response.links[Len(response.links)].type = "has_application"

\* C20 (as claimed): the root node is expandable if and only if the
\* components mapping is non-empty.
C20_RootExpandableIffComponents ==
    GraphServed => (response.nodes[1].expandable <=> LoadedComponents # <<>>)

-----------------------------------------------------------------------------
(* The loaders *)

\* the keys of the files of a directory that parse to a non-empty document
ParsedKeys(dir) ==
    {dir.files[i].key :
        i \in {j \in 1..Len(dir.files) : dir.files[j].data.t \in {"dict", "list"} /\
                                          PyBool(dir.files[j].data)}}

MappingKeys(mapping) == {mapping[i].key : i \in 1..Len(mapping)}

\* C16 (as claimed): no loader raises, and every file that parses to a
\* non-empty object or array is in the mapping returned, under its file
\* name, whatever the other files of the directory hold.
C16_LoadersKeepEveryFile ==
    /\ component_files.exists =>
          /\ ParsedKeys(component_files) \subseteq MappingKeys(app_get_components(component_files))
          /\ ParsedKeys(component_files) \subseteq MappingKeys(helper_get_components(component_files))
    /\ subcomponent_files.exists =>
          /\ ~helper_get_subcomponents(subcomponent_files).raised
          /\ ParsedKeys(subcomponent_files) \subseteq
                MappingKeys(helper_get_subcomponents(subcomponent_files).map)
          /\ ParsedKeys(subcomponent_files) \subseteq
                MappingKeys(app_get_subcomponents(subcomponent_files))

RootServed == response.op = "root" /\ response.status = 200

\* the root file holds no JSON text: it is missing, unreadable, blank, or
\* text that does not decode
NoJson(file) == file.t \in {"missing", "unreadable", "blank", "text", "broken"}

IsDefaultRoot(doc) ==
    /\ doc = DEFAULT_ROOT_DATA
    /\ doc.id = "ai-alignment"
    /\ Len(doc.components.v) = 4

\* C17 (as claimed): the root document served is the built-in default, with
\* id "ai-alignment" and exactly 4 components, when the root file is
\* missing, unreadable, not valid JSON or empty, and the parsed document
\* otherwise.
C17_DefaultOnlyWithoutJson ==
    RootServed =>
        IF NoJson(root_file) THEN IsDefaultRoot(response.body)
        ELSE response.body = root_file

\* C17 (amended): get_root_data never fails; the root document served is
\* the built-in default, with id "ai-alignment" and exactly 4 components,
\* when the root file is missing, unreadable, blank or not valid JSON, and
\* also when it holds valid JSON that is null, a number, or an empty
\* object or array; it is the parsed document otherwise.
C17_DefaultWithoutDocument ==
    /\ response.op = "root" =>
          response.status = 200 \/ helper_get_subcomponents(subcomponent_files).raised
    /\ RootServed =>
          IF \/ NoJson(root_file)
             \/ root_file.t \in {"null", "num"}
             \/ root_file \in {[t |-> "dict"], EmptyList}
          THEN IsDefaultRoot(response.body)
          ELSE response.body = root_file

\* the root is served from a file that holds the empty object
C17_Witness ==
    /\ RootServed
    /\ root_file = [t |-> "dict"]
    /\ response.body.id = "ai-alignment"
    /\ Len(response.body.components.v) = 4

\* C18 (as claimed): every id of a node of the built graph that a client
\* asks the details of is found, with status 200.
C18_ResolverFindsBuiltNodes ==
    (DetailsServed /\ response.node_id \in Ids(BuiltNodes)) => response.status = 200

-----------------------------------------------------------------------------
(* Attachment of subcomponents *)

\* the subcomponent document names a loaded component as its parent
Attached(doc) ==
    IsDict(doc) /\ Has(doc, "parent") /\ doc.parent \in Keys(LoadedComponents)

SubcomponentPositions(nodes, key) ==
    {i \in 1..Len(nodes) : nodes[i].type = "subcomponent" /\ nodes[i].id = key}

\* position i lies in the block of the component node with this id: after
\* that node and before any later component node
InBlockOf(nodes, i, component_id) ==
    \E c \in 1..(i - 1) :
        /\ nodes[c].type = "component" /\ nodes[c].id = component_id
        /\ \A m \in (c + 1)..i : nodes[m].type # "component"

\* C21: in a served node list, an entry of the subcomponents mapping has a
\* subcomponent node if and only if it has a "parent" that is a key of the
\* components mapping; it then has exactly one, with that component as
\* parent, after that component's node and before any later component;
\* there is no other subcomponent node, and every capability node hangs
\* under an attached subcomponent.
C21_AttachedIffParentIsComponent ==
    GraphServed =>
        LET nodes == response.nodes IN
        /\ \A s \in 1..Len(LoadedSubcomponents) :
              LET key == LoadedSubcomponents[s].key
                  doc == LoadedSubcomponents[s].doc
              IN  IF Attached(doc)
                  THEN \E i \in 1..Len(nodes) :
                          /\ SubcomponentPositions(nodes, key) = {i}
                          /\ nodes[i].parent = doc.parent
                          /\ InBlockOf(nodes, i, doc.parent)
                  ELSE SubcomponentPositions(nodes, key) = {}
        /\ \A i \in 1..Len(nodes) :
              /\ nodes[i].type = "subcomponent" => nodes[i].id \in Keys(LoadedSubcomponents)
              /\ nodes[i].type = "capability" =>
                    \E s \in 1..Len(LoadedSubcomponents) :
                        /\ LoadedSubcomponents[s].key = nodes[i].parent
                        /\ Attached(LoadedSubcomponents[s].doc)

\* two subcomponents with capabilities are loaded; one names a loaded
\* component and has its node and its capability's node, the other names a
\* component that is not loaded and has none
C21_Witness ==
    /\ GraphServed
    /\ Len(LoadedSubcomponents) = 2
    /\ Attached(LoadedSubcomponents[1].doc)
    /\ Has(LoadedSubcomponents[1].doc, "capabilities")
    /\ IsDict(LoadedSubcomponents[2].doc)
    /\ Has(LoadedSubcomponents[2].doc, "parent")
    /\ Has(LoadedSubcomponents[2].doc, "capabilities")
    /\ ~Attached(LoadedSubcomponents[2].doc)
    /\ Cardinality({i \in 1..Len(response.nodes) : response.nodes[i].type = "subcomponent"}) = 1
    /\ Cardinality({i \in 1..Len(response.nodes) : response.nodes[i].type = "capability"}) = 1

-----------------------------------------------------------------------------
(* The order of the nested search *)

\* the object entries of a field that holds an array
ObjectEntries(frag, field) ==
    LET c == Get(frag, field, EmptyList)
    IN  IF IsList(c) THEN SelectSeq(c.v, IsDict) ELSE <<>>

\* the children of a fragment in document order; depth 1 is a capability,
\* 2 a function, 3 a specification, 4 an integration, 5 a technique, 6 an
\* application, 7 an input or output
ChildFragments(frag, depth) ==
    CASE depth = 1 -> ObjectEntries(frag, "functions")
      [] depth = 2 -> ObjectEntries(frag, "specifications")
      [] depth = 3 -> IntegrationsOf(<<frag>>)
      [] depth = 4 -> ObjectEntries(frag, "techniques")
      [] depth = 5 -> ObjectEntries(frag, "applications")
      [] depth = 6 -> ObjectEntries(frag, "inputs") \o ObjectEntries(frag, "outputs")
      [] OTHER     -> <<>>

\* a fragment, then the subtree of each of its children in turn
RECURSIVE PreOrder(_, _)
PreOrder(frag, depth) ==
    LET kids == ChildFragments(frag, depth)
    IN  <<frag>> \o Concat([i \in 1..Len(kids) |-> PreOrder(kids[i], depth + 1)])

\* all fragments under the subcomponent objects, in pre-order, depth-first
\* document order
DocumentOrder == Concat([i \in 1..Len(SearchedCaps) |-> PreOrder(SearchedCaps[i], 1)])

MatchesIn(frags, node_id) ==
    {i \in 1..Len(frags) : Has(frags[i], "id") /\ frags[i].id = node_id}

\* the request reaches the nested search: the mappings were loaded and the
\* id is not the root's, no component key and no subcomponent key
NestedSearchRuns ==
    /\ DetailsServed
    /\ ~ResolverLoad.raised
    /\ ~IsRootId(response.node_id)
    /\ response.node_id \notin Keys(ResolverComponents)
    /\ response.node_id \notin Keys(ResolverSubcomponents)

\* C22 (as claimed): when the nested search runs and some fragment has the
\* requested id, the answer is the first such fragment in pre-order,
\* depth-first document order, and its id is the requested id.
C22_FirstMatchInDocumentOrder ==
    (NestedSearchRuns /\ MatchesIn(DocumentOrder, response.node_id) # {}) =>
        LET m == MatchesIn(DocumentOrder, response.node_id)
            first == CHOOSE i \in m : \A j \in m : i <= j
        IN  /\ response.status = 200
            /\ response.body = DocumentOrder[first]
            /\ response.body.id = response.node_id

-----------------------------------------------------------------------------
(* Id synthesis *)

\* the fragments below a capability that get a node whatever node_map
\* holds, in the builder's order, each with its depth (1 a capability ...
\* 6 an application, 7 an input)
RECURSIVE BuilderWalk(_, _)
BuilderWalk(frag, depth) ==
    LET kids == IF depth = 6 THEN ObjectEntries(frag, "inputs")
                ELSE ChildFragments(frag, depth)
    IN  <<[frag |-> frag, depth |-> depth]>> \o
        Concat([i \in 1..Len(kids) |-> BuilderWalk(kids[i], depth + 1)])

BuilderOrder ==
    Concat([i \in 1..Len(VisitedCapabilities) |-> BuilderWalk(VisitedCapabilities[i], 1)])

Role(depth) ==
    CASE depth = 1 -> "capability" [] depth = 2 -> "function" [] depth = 3 -> "spec"
      [] depth = 4 -> "integration" [] depth = 5 -> "technique" [] depth = 6 -> "app"
      [] OTHER -> "input"

\* the positions of the nodes below the subcomponents that are no outputs,
\* ascending
InnerPositions(nodes) ==
    LET P == {i \in 1..Len(nodes) : nodes[i].level >= 3 /\ nodes[i].type # "output"}
    IN  [k \in 1..Cardinality(P) |->
            CHOOSE i \in P : Cardinality({j \in P : j < i}) = k - 1]

\* the deduplicated output list of an application: a candidate stays when
\* it has no id or no earlier candidate has its id
Deduplicated(cands) ==
    LET keep == {i \in 1..Len(cands) :
                    \/ ExplicitId(cands[i]) = ""
                    \/ \A j \in 1..(i - 1) : ExplicitId(cands[j]) # ExplicitId(cands[i])}
    IN  [k \in 1..Cardinality(keep) |->
            cands[CHOOSE i \in keep : Cardinality({j \in keep : j < i}) = k - 1]]

\* C23: id synthesis. In a served node list the nodes of capabilities,
\* functions, specifications, integrations, techniques, applications and
\* inputs stand for the visited fragments in order; such a node has its
\* fragment's "id" when that key exists and otherwise the id
\* {parent_id}-{role}-{n} with n the number of nodes before it in the list.
\* An output node has a truthy explicit id of an entry of its
\* application's deduplicated output list, or the id
\* {application_id}-output-{i} of an id-less entry at zero-based position i
\* of that list, whatever the node count is.
C23_IdSynthesis ==
    GraphServed =>
        LET nodes == response.nodes
            inner == InnerPositions(nodes)
            at == AppPositions(nodes)
            order == BuilderOrder
        IN  /\ Len(inner) = Len(order)
            /\ \A k \in 1..Len(inner) :
                  LET b == order[k]
                      n == nodes[inner[k]]
                  IN  n.id = IF Has(b.frag, "id") THEN b.frag.id
                             ELSE n.parent \o "-" \o Role(b.depth) \o "-" \o ToString(inner[k] - 1)
            /\ \A k \in 1..Len(at) :
                  LET list == Deduplicated(Candidates(VisitedApps[k]))
                      outs == OutputsAfter(nodes, at[k])
                  IN  \A m \in 1..Len(outs) :
                          \E i \in 1..Len(list) :
                              /\ outs[m].name = list[i].name
                              /\ outs[m].id =
                                    IF ExplicitId(list[i]) # "" THEN list[i].id
                                    ELSE nodes[at[k]].id \o "-output-" \o ToString(i - 1)

\* a chain without ids was built: its function is the fifth node, and
\* under its application the second entry of the output list, which has no
\* id, got the position 1 in its id
C23_Witness ==
    /\ GraphServed
    /\ Len(response.nodes) >= 11
    /\ response.nodes[5].id = "a-capability-3-function-4"
    /\ \E i \in 1..Len(response.nodes) :
          /\ response.nodes[i].type = "output"
          /\ response.nodes[i].id = response.nodes[i].parent \o "-output-1"
          /\ response.nodes[i].parent =
                "a-capability-3-function-4-spec-5-integration-6-technique-7-app-8"

\* C24 (as claimed): every entry without a non-empty id in an
\* application's deduplicated output list has its own output node, named
\* after it and placed under the application, and its own has_output link.
C24_IdlessOutputsKept ==
    GraphServed =>
        LET nodes == response.nodes
            at == AppPositions(nodes)
        IN  \A k \in 1..Len(at) :
                LET list == Deduplicated(Candidates(VisitedApps[k]))
                    outs == OutputsAfter(nodes, at[k])
                IN  \A i \in 1..Len(list) :
                        ExplicitId(list[i]) = "" =>
                            LET id == nodes[at[k]].id \o "-output-" \o ToString(i - 1)
                            IN  /\ \E m \in 1..Len(outs) :
                                      outs[m].id = id /\ outs[m].name = list[i].name
                                /\ \E l \in 1..Len(response.links) :
                                      response.links[l] = Link(nodes[at[k]].id, id, "has_output")

\* the link type that belongs to a target node of this type
LinkTypeOf(type) ==
    CASE type \in {"component", "subcomponent"} -> "contains"
      [] type = "capability"    -> "has_capability"
      [] type = "function"      -> "has_function"
      [] type = "specification" -> "has_specification"
      [] type = "integration"   -> "has_integration"
      [] type = "technique"     -> "has_technique"
      [] type = "application"   -> "has_application"
      [] type = "input"         -> "has_input"
      [] type = "output"        -> "has_output"
      [] OTHER                  -> "none"

\* C25: every link a graph request built, in a served graph or up to the
\* point where the build raised, has the type that belongs to the type of
\* its target node, the node appended with it: contains for a component or
\* subcomponent, has_capability ... has_output for the matching type, and
\* nothing else.
C25_LinkTypeFixedByTarget ==
    response.op = "graph" =>
        LET nodes == Built.nodes
            links == Built.links
        IN  \A k \in 1..Len(links) :
                /\ links[k].target = nodes[k + 1].id
                /\ links[k].type = LinkTypeOf(nodes[k + 1].type)
                /\ links[k].type # "none"

\* a served graph holds links of all nine types
C25_Witness ==
    /\ GraphServed
    /\ response.links = Built.links
    /\ Cardinality({response.links[k].type : k \in 1..Len(response.links)}) = 9

\* C26 (as claimed): without the components directory both get_components
\* return the empty mapping, and a graph served then holds the root node
\* only.
C26_NoDirectoryNoComponents ==
    ~component_files.exists =>
        /\ app_get_components(component_files) = <<>>
        /\ helper_get_components(component_files) = <<>>
        /\ GraphServed => Len(response.nodes) = 1

-----------------------------------------------------------------------------
(* Claims about the threaded server (specification ConcSpec)               *)

GraphDone(t) ==
    /\ threads[t].at = "done"
    /\ threads[t].op = "graph"

Handle(op, node_id) ==
    IF op = "graph" THEN graph(root_file, component_files, subcomponent_files)
    ELSE IF op = "hierarchy_path"
         THEN hierarchy_path(node_id, root_file, component_files, subcomponent_files)
         ELSE get_node_details(node_id, root_file, component_files, subcomponent_files)

Loaded(t, stages) == threads[t].at \in stages

\* C19: concurrent requests do not interfere. However the handlers of
\* graph, details and hierarchy-path requests interleave, each thread's
\* mappings are the ones a lone run loads, its response is the response of
\* the same request run alone, and the shared DEFAULT_ROOT_DATA object is
\* never written.
C19_RequestsDoNotInterfere ==
    /\ default_root_data = DEFAULT_ROOT_DATA
    /\ \A t \in Threads :
          /\ Loaded(t, {"root", "components", "loaded", "done"}) =>
                threads[t].root_data = get_root_data(root_file)
          /\ Loaded(t, {"components", "loaded", "done"}) =>
                threads[t].components =
                    IF threads[t].op = "details" THEN helper_get_components(component_files)
                    ELSE app_get_components(component_files)
          /\ Loaded(t, {"done"}) =>
                threads[t].result = Handle(threads[t].op, threads[t].node_id)

\* a graph request has finished on the default components while a details
\* request, started later, stands between its loader calls, and an
\* earlier response has been sent
C19_Witness ==
    /\ ~component_files.exists
    /\ response.op = "hierarchy_path"
    /\ GraphDone(1)
    /\ threads[1].result.status = 200
    /\ Len(threads[1].result.nodes) = 5
    /\ threads[2].op = "details"
    /\ threads[2].at = "components"
    /\ threads[2].components = <<>>

\* the documents and fragments a details request can return unaltered: the
\* root document, the component and subcomponent documents of the
\* thread's mappings, and the fragments below them
StoredFragments(t) ==
    {threads[t].root_data} \cup
    {threads[t].components[i].doc : i \in 1..Len(threads[t].components)} \cup
    {threads[t].subcomponents.map[i].doc : i \in 1..Len(threads[t].subcomponents.map)} \cup
    {SearchedFragments[i] : i \in 1..Len(SearchedFragments)}

\* C27: the handlers leave the documents unchanged. When a graph, details
\* or hierarchy-path handler has finished, the root document and the
\* component and subcomponent mappings of its frame are as the loaders
\* returned them, the default object included, and what a details request
\* found is one of these documents or of their fragments, unaltered.
C27_DocumentsUnchanged ==
    /\ default_root_data = DEFAULT_ROOT_DATA
    /\ \A t \in Threads :
          threads[t].at = "done" =>
              /\ threads[t].root_data = get_root_data(root_file)
              /\ threads[t].components =
                    IF threads[t].op = "details" THEN helper_get_components(component_files)
                    ELSE app_get_components(component_files)
              /\ threads[t].subcomponents =
                    IF threads[t].op = "details" THEN helper_get_subcomponents(subcomponent_files)
                    ELSE [map |-> app_get_subcomponents(subcomponent_files), raised |-> FALSE]
              /\ (threads[t].op = "details" /\ threads[t].result.status = 200) =>
                    threads[t].result.body \in StoredFragments(t)

\* a details request has found a capability by the nested search while a
\* graph request has finished on the same files
C27_Witness ==
    /\ threads[1].at = "done" /\ threads[1].op = "details"
    /\ threads[1].result.status = 200
    /\ threads[1].node_id \notin Keys(threads[1].subcomponents.map) \cup Keys(threads[1].components)
    /\ threads[1].result.body \in {SearchedCaps[i] : i \in 1..Len(SearchedCaps)}
    /\ GraphDone(2)
    /\ threads[2].result.status = 200

====
